---- MODULE Spec2Model ----
(***************************************************************************)
(* A model of grakel/kernels/weisfeiler_lehman.py: the Weisfeiler-Lehman   *)
(* kernel object, its relabeling passes (parse_input on the fit side,      *)
(* transform on the query side) and the attributes it keeps between calls. *)
(*                                                                         *)
(* A graph is a record [len, adj, lab]: len is the length of the batch     *)
(* element (0 for an empty element, 2 for (structure, labels)), adj maps   *)
(* every node to the sequence of its neighbours in the order the edge      *)
(* dictionary enumerates them, lab maps every node to its raw label.       *)
(* A Python string is the sequence of its character codes, so that sorted  *)
(* on strings is the lexicographic order Python uses.                      *)
(***************************************************************************)
EXTENDS Integers, Sequences, FiniteSets, TLC

VARIABLES
    pool,        \* the graphs the calls of this behaviour draw their batches from
    normalize,   \* self._normalize
    attrs,       \* the attributes among X, _nx, _inv_labels, _X_diag the object has
    _nx,         \* self._nx
    _inv_labels, \* self._inv_labels: iteration -> (signature -> code)
    X,           \* self.X: iteration -> base-kernel instance
    _X_diag,     \* self._X_diag
    ret,         \* the last call: its name, its argument, how it ended, what it returned
    calls,       \* the base-kernel calls the last call made, in order
    fitted       \* the parsed batch of the last fit / fit_transform that returned

vars == <<pool, normalize, attrs, _nx, _inv_labels, X, _X_diag, ret, calls, fitted>>

\* niter as the user gives it; __init__ stores niter + 1
NiterUser == 1
\* the longest batch a call is given
MaxBatch == 2

_niter == NiterUser + 1

-----------------------------------------------------------------------------
\* Python values

Range(f) == {f[x] : x \in DOMAIN f}

\* str(n) for an integer n >= 0
RECURSIVE Str(_)
Str(n) == IF n < 10 THEN <<48 + n>> ELSE Str(n \div 10) \o <<48 + (n % 10)>>

\* str(l) for a list of integers: "[a, b, c]"
RECURSIVE StrItems(_)
StrItems(l) ==
    IF Len(l) = 0 THEN <<>>
    ELSE IF Len(l) = 1 THEN Str(l[1])
    ELSE Str(l[1]) \o <<44, 32>> \o StrItems(Tail(l))

StrList(l) == <<91>> \o StrItems(l) \o <<93>>

\* a < b on Python strings: the first character that differs decides, and a
\* proper prefix comes first
RECURSIVE StrLess(_, _)
StrLess(a, b) ==
    IF Len(b) = 0 THEN FALSE
    ELSE IF Len(a) = 0 THEN TRUE
    ELSE IF a[1] = b[1] THEN StrLess(Tail(a), Tail(b))
    ELSE a[1] < b[1]

\* list(S), in some order
RECURSIVE ListOf(_)
ListOf(S) ==
    IF S = {} THEN <<>>
    ELSE LET x == CHOOSE y \in S : TRUE
         IN  <<x>> \o ListOf(S \ {x})

\* sorted(list(S)) for a set of integers
SortedInts(S) == SortSeq(ListOf(S), LAMBDA a, b : a < b)

\* sorted(list(S)) for a set of strings
SortedStrs(S) == SortSeq(ListOf(S), StrLess)

\* a dict with no entries
EmptyDict == [z \in {} |-> 0]

\* a dict or list built by a comprehension: its entries are computed once
Stored(f) == f @@ EmptyDict

\* {dv: idx for (idx, dv) in enumerate(l, start)}
Enumerate(l, start) ==
    Stored([dv \in Range(l) |-> start + (CHOOSE n \in 1..Len(l) : l[n] = dv) - 1])

-----------------------------------------------------------------------------
\* The base kernel handed to __init__: a label-histogram kernel, and a fitted
\* instance of it, [Xd |-> the dataset it was fitted on, Yd |-> the dataset it
\* last transformed]. A dataset is a sequence of [adj, lab].

BaseValue(g, h) ==
    Cardinality({p \in (DOMAIN g.lab) \X (DOMAIN h.lab) : g.lab[p[1]] = h.lab[p[2]]})

BaseFit(ds) == [Xd |-> ds, Yd |-> <<>>]

BaseFitTransform(ds) ==
    Stored([a \in 1..Len(ds) |-> Stored([b \in 1..Len(ds) |-> BaseValue(ds[a], ds[b])])])

BaseTransform(inst, ds) ==
    Stored([a \in 1..Len(ds) |->
                Stored([b \in 1..Len(inst.Xd) |-> BaseValue(ds[a], inst.Xd[b])])])

BaseDiagonal(inst) ==
    << [a \in 1..Len(inst.Xd) |-> BaseValue(inst.Xd[a], inst.Xd[a])],
       [a \in 1..Len(inst.Yd) |-> BaseValue(inst.Yd[a], inst.Yd[a])] >>

-----------------------------------------------------------------------------
\* numpy

Zeros(n, m) == [a \in 1..n |-> [b \in 1..m |-> 0]]

MatAdd(A, B) == Stored([a \in DOMAIN A |-> Stored([b \in DOMAIN A[a] |-> A[a][b] + B[a][b]])])

MatDiagonal(A) == [a \in DOMAIN A |-> A[a][a]]

\* whether a += b is defined for vectors, and its value
CanAddInto(a, b) == Len(b) = Len(a) \/ Len(b) = 1

VecAddInto(a, b) == [n \in 1..Len(a) |-> a[n] + (IF Len(b) = Len(a) THEN b[n] ELSE b[1])]

\* whether shapes n and m broadcast, and the index an operand of length n is read at
Broadcasts(n, m) == n = m \/ n = 1 \/ m = 1

At(n, a) == IF n = 1 THEN 1 ELSE a

\* whether np.divide(K, np.sqrt(np.outer(rd, cd))) is defined
CanNormalize(K, rd, cd) ==
    /\ Broadcasts(Len(K), Len(rd))
    /\ Broadcasts(Len(K[1]), Len(cd))

\* np.divide(K, np.sqrt(np.outer(rd, cd))), entry by entry, left unevaluated
Normalized(K, rd, cd) ==
    LET rows == IF Len(K) = 1 THEN Len(rd) ELSE Len(K)
        cols == IF Len(K[1]) = 1 THEN Len(cd) ELSE Len(K[1])
    IN  Stored([a \in 1..rows |-> Stored([b \in 1..cols |->
            [num |-> K[At(Len(K), a)][At(Len(K[1]), b)],
             den |-> <<rd[At(Len(rd), a)], cd[At(Len(cd), b)]>>]])])

-----------------------------------------------------------------------------
\* Relabeling

\* the parsing loop leaving at the first zero-length element
RECURSIVE ParseUntilEmpty(_)
ParseUntilEmpty(batch) ==
    IF Len(batch) = 0 \/ Head(batch).len = 0 THEN <<>>
    ELSE <<Head(batch)>> \o ParseUntilEmpty(Tail(batch))

\* the elements of a batch that are not skipped, in batch order
Parse(batch) == SelectSeq(batch, LAMBDA x : x.len # 0)

\* the neighbour codes of v as v lists them, not sorted
ListedNeighbors(g, L, v) == [n \in 1..Len(g.adj[v]) |-> L[g.adj[v][n]]]

\* the neighbour codes of v, sorted
SortedNeighbors(g, L, v) ==
    SortSeq([n \in 1..Len(g.adj[v]) |-> L[g.adj[v][n]]], LAMBDA a, b : a < b)

Credential(g, L, v) == Str(L[v]) \o <<44>> \o StrList(SortedNeighbors(g, L, v))

\* new_graphs
NewGraphs(Gs, L) == Stored([j \in 1..Len(Gs) |-> [adj |-> Gs[j].adj, lab |-> L[j]]])

L_temp(Gs, L) ==
    Stored([j \in 1..Len(Gs) |->
                Stored([v \in DOMAIN Gs[j].adj |-> Credential(Gs[j], L[j], v)])])

AllValues(Ls) == UNION {Range(Ls[j]) : j \in DOMAIN Ls}

\* parse_input, iteration 0: [inv, L, label_count]
FitLevel0(Gs) ==
    LET raw == [j \in 1..Len(Gs) |-> Gs[j].lab]
        inv == Enumerate(SortedInts(AllValues(raw)), 0)
    IN  [inv |-> inv,
         L |-> Stored([j \in 1..Len(Gs) |->
                          Stored([k \in DOMAIN raw[j] |-> inv[raw[j][k]]])]),
         label_count |-> Cardinality(DOMAIN inv)]

\* one pass of the loop with label_count set back to 0 before it
FitLevelNextFromZero(Gs, prev) ==
    LET lt == L_temp(Gs, prev.L)
        inv == Enumerate(SortedStrs(AllValues(lt)), 0)
    IN  [inv |-> inv,
         L |-> Stored([j \in 1..Len(Gs) |->
                          Stored([k \in DOMAIN lt[j] |-> inv[lt[j][k]]])]),
         label_count |-> Cardinality(DOMAIN inv)]

\* parse_input, one pass of the loop over i
FitLevelNext(Gs, prev) ==
    LET lt == L_temp(Gs, prev.L)
        inv == Enumerate(SortedStrs(AllValues(lt)), prev.label_count)
    IN  [inv |-> inv,
         L |-> Stored([j \in 1..Len(Gs) |->
                          Stored([k \in DOMAIN lt[j] |-> inv[lt[j][k]]])]),
         label_count |-> prev.label_count + Cardinality(DOMAIN inv)]

\* parse_input, iterations 0..last, as the sequence of their [inv, L, label_count]
RECURSIVE FitLevels(_, _)
FitLevels(Gs, last) ==
    IF last = 0 THEN <<FitLevel0(Gs)>>
    ELSE LET before == FitLevels(Gs, last - 1)
         IN  Append(before, FitLevelNext(Gs, before[last]))

\* transform, iteration 0: [L, WL_labels_inverse]
TransLevel0(Gs, inv) ==
    LET raw == [j \in 1..Len(Gs) |-> Gs[j].lab]
        distinct_values == {v \in AllValues(raw) : v \notin DOMAIN inv}
        nl == Cardinality(DOMAIN inv)
        wl == Enumerate(SortedInts(distinct_values), nl)
    IN  [L |-> Stored([j \in 1..Len(Gs) |-> Stored([k \in DOMAIN raw[j] |->
                    IF raw[j][k] \in DOMAIN inv THEN inv[raw[j][k]] ELSE wl[raw[j][k]]])]),
         WL_labels_inverse |-> wl]

\* one pass of the loop that numbers every signature of the query, known or not
TransLevelNextAfresh(Gs, inv, prev) ==
    LET lt == L_temp(Gs, prev.L)
        nl == Cardinality(DOMAIN inv)
        wl == Enumerate(SortedStrs(AllValues(lt)), nl)
    IN  [L |-> Stored([j \in 1..Len(Gs) |-> Stored([k \in DOMAIN lt[j] |-> wl[lt[j][k]]])]),
         WL_labels_inverse |-> wl]

\* transform, one pass of the loop over i
TransLevelNext(Gs, inv, prev) ==
    LET lt == L_temp(Gs, prev.L)
        label_set == {c \in AllValues(lt) : c \notin DOMAIN inv}
        nl == Cardinality(DOMAIN inv)
        wl == Enumerate(SortedStrs(label_set), nl)
    IN  [L |-> Stored([j \in 1..Len(Gs) |-> Stored([k \in DOMAIN lt[j] |->
                    IF lt[j][k] \in DOMAIN inv THEN inv[lt[j][k]] ELSE wl[lt[j][k]]])]),
         WL_labels_inverse |-> wl]

\* transform, iterations 0..last, as the sequence of their [L, WL_labels_inverse]
RECURSIVE TransLevels(_, _, _)
TransLevels(Gs, invs, last) ==
    IF last = 0 THEN <<TransLevel0(Gs, invs[0])>>
    ELSE LET before == TransLevels(Gs, invs, last - 1)
         IN  Append(before, TransLevelNext(Gs, invs[last], before[last]))

\* K assigned, not added to, at every iteration
KernelSumLast(mats, i) == mats[i]

\* K after the calls of iterations 0..i, mats[i] being what instance i returned
RECURSIVE KernelSum(_, _)
KernelSum(mats, i) ==
    IF i = 0 THEN mats[0] ELSE MatAdd(KernelSum(mats, i - 1), mats[i])

-----------------------------------------------------------------------------
\* The calls. failAt is the iteration whose base-kernel call raises; _niter
\* when none does.

NoValue == <<>>

CallLog(method, data, last) ==
    [n \in 1..(last + 1) |-> [inst |-> n - 1, method |-> method, data |-> data[n - 1]]]

\* parse_input: what it returns and what it leaves in self
parse_input(batch, mode, failAt) ==
    LET Gs == Parse(batch)
        last == IF failAt < _niter THEN failAt ELSE _niter - 1
        lev == FitLevels(Gs, last)
        data == Stored([i \in 0..last |-> NewGraphs(Gs, lev[i + 1].L)])
    IN  IF Len(Gs) = 0
        THEN [status |-> "ValueError", nx |-> 0, inv |-> EmptyDict,
              base_kernel |-> EmptyDict, K |-> NoValue, calls |-> <<>>]
        ELSE [status |-> IF failAt < _niter THEN "BaseKernelError" ELSE "ok",
              nx |-> Len(Gs),
              inv |-> [i \in 0..last |-> lev[i + 1].inv],
              base_kernel |-> [i \in 0..last |-> BaseFit(data[i])],
              K |-> IF mode = 2 /\ failAt >= _niter
                    THEN MatAdd(Zeros(Len(Gs), Len(Gs)),
                                KernelSum([i \in 0..last |-> BaseFitTransform(data[i])], last))
                    ELSE NoValue,
              calls |-> CallLog(IF mode = 1 THEN "fit" ELSE "fit_transform", data, last)]

\* the assignments parse_input makes to self._nx and self._inv_labels
ParseInputState(r) ==
    IF r.status = "ValueError"
    THEN UNCHANGED <<_nx, _inv_labels>>
    ELSE _nx' = r.nx /\ _inv_labels' = r.inv

ParseInputAttrs(r) == IF r.status = "ValueError" THEN {} ELSE {"_nx", "_inv_labels"}

\* kernel.fit: self.X = self.parse_input(X) with _method_calling = 1
fit(batch, failAt) ==
    \E r \in {parse_input(batch, 1, failAt)} :
        /\ ParseInputState(r)
        /\ IF r.status = "ok"
           THEN X' = r.base_kernel /\ fitted' = Parse(batch)
           ELSE UNCHANGED <<X, fitted>>
        /\ attrs' = attrs \cup ParseInputAttrs(r) \cup (IF r.status = "ok" THEN {"X"} ELSE {})
        /\ ret' = [op |-> "fit", arg |-> batch, status |-> r.status, value |-> NoValue]
        /\ calls' = r.calls
        /\ UNCHANGED <<pool, normalize, _X_diag>>

fit_transform(batch, failAt) ==
    \E r \in {parse_input(batch, 2, failAt)} :
        /\ ParseInputState(r)
        /\ IF r.status = "ok"
           THEN \E diag \in {MatDiagonal(r.K)} :
                /\ X' = r.base_kernel
                /\ _X_diag' = diag
                /\ fitted' = Parse(batch)
                /\ ret' = [op |-> "fit_transform", arg |-> batch, status |-> "ok",
                           value |-> IF normalize THEN Normalized(r.K, diag, diag) ELSE r.K]
           ELSE /\ UNCHANGED <<X, _X_diag, fitted>>
                /\ ret' = [op |-> "fit_transform", arg |-> batch, status |-> r.status,
                           value |-> NoValue]
        /\ attrs' = attrs \cup ParseInputAttrs(r)
                          \cup (IF r.status = "ok" THEN {"X", "_X_diag"} ELSE {})
        /\ calls' = r.calls
        /\ UNCHANGED <<pool, normalize>>

\* check_is_fitted(self, names) passes
check_is_fitted(names) == names \subseteq attrs

\* the sum of the vectors vs[0..i], accumulated in place into vs[0]
RECURSIVE VecSum(_, _)
VecSum(vs, i) == IF i = 0 THEN vs[0] ELSE VecAddInto(VecSum(vs, i - 1), vs[i])

VecSumDefined(vs) == \A i \in DOMAIN vs : CanAddInto(vs[0], vs[i])

\* diagonal() on the instances Xs: what it returns and whether it sets _X_diag
diagonal_of(Xs, hasX, hasXdiag, xdiag) ==
    LET xs == Stored([i \in DOMAIN Xs |-> BaseDiagonal(Xs[i])[1]])
        ys == Stored([i \in DOMAIN Xs |-> BaseDiagonal(Xs[i])[2]])
        log == [n \in 1.._niter |-> [inst |-> n - 1, method |-> "diagonal", data |-> NoValue]]
    IN  IF ~hasX
        THEN [status |-> "NotFittedError", X_diag |-> NoValue, Y_diag |-> NoValue,
              sets |-> FALSE, calls |-> <<>>]
        ELSE IF ~VecSumDefined(ys)
        THEN [status |-> "ValueError", X_diag |-> NoValue, Y_diag |-> NoValue,
              sets |-> FALSE, calls |-> log]
        ELSE IF hasXdiag
        THEN [status |-> "ok", X_diag |-> xdiag, Y_diag |-> VecSum(ys, _niter - 1),
              sets |-> FALSE, calls |-> log]
        ELSE [status |-> "ok", X_diag |-> VecSum(xs, _niter - 1),
              Y_diag |-> VecSum(ys, _niter - 1), sets |-> TRUE, calls |-> log]

diagonal ==
    \E d \in {diagonal_of(X, check_is_fitted({"X"}), check_is_fitted({"_X_diag"}), _X_diag)} :
        /\ IF d.sets
           THEN _X_diag' = d.X_diag /\ attrs' = attrs \cup {"_X_diag"}
           ELSE UNCHANGED <<_X_diag, attrs>>
        /\ ret' = [op |-> "diagonal", arg |-> NoValue, status |-> d.status,
                   value |-> IF d.status = "ok" THEN <<d.X_diag, d.Y_diag>> ELSE NoValue]
        /\ calls' = d.calls
        /\ UNCHANGED <<pool, normalize, _nx, _inv_labels, X, fitted>>

\* the last iteration transform reaches
LastReached(failAt) ==
    LET top == CHOOSE i \in DOMAIN _inv_labels : \A j \in DOMAIN _inv_labels : j <= i
        m == IF top < _niter - 1 THEN top ELSE _niter - 1
    IN  IF failAt < m THEN failAt ELSE m

\* transform past its checks: what it returns and what it leaves in self
transform_of(batch, failAt) ==
    LET Gs == Parse(batch)
        last == LastReached(failAt)
        lev == TransLevels(Gs, _inv_labels, last)
        data == Stored([i \in 0..last |-> NewGraphs(Gs, lev[i + 1].L)])
        status == IF failAt <= last THEN "BaseKernelError"
                  ELSE IF last < _niter - 1 THEN "KeyError" ELSE "ok"
        returned == IF failAt <= last THEN last - 1 ELSE last
        newX == Stored([i \in DOMAIN X |->
                    IF i <= returned THEN [X[i] EXCEPT !.Yd = data[i]] ELSE X[i]])
        K == KernelSum([i \in 0..last |-> BaseTransform(X[i], data[i])], last)
        d == diagonal_of(newX, TRUE, check_is_fitted({"_X_diag"}), _X_diag)
        plain == [status |-> status, X |-> newX, calls |-> CallLog("transform", data, last),
                  value |-> IF status = "ok" THEN K ELSE NoValue,
                  sets |-> FALSE, X_diag |-> NoValue]
    IN  IF ~(status = "ok" /\ normalize)
        THEN plain
        ELSE IF ~CanNormalize(K, d.Y_diag, d.X_diag)
        THEN [plain EXCEPT !.status = "ValueError", !.value = NoValue,
                           !.calls = @ \o d.calls, !.sets = d.sets, !.X_diag = d.X_diag]
        ELSE [plain EXCEPT !.value = Normalized(K, d.Y_diag, d.X_diag),
                           !.calls = @ \o d.calls, !.sets = d.sets, !.X_diag = d.X_diag]

\* a call that raises before it touches self or a base kernel
Raises(op, batch, error) ==
    /\ ret' = [op |-> op, arg |-> batch, status |-> error, value |-> NoValue]
    /\ calls' = <<>>
    /\ UNCHANGED <<pool, normalize, attrs, _nx, _inv_labels, X, _X_diag, fitted>>

\* transform past its checks, with the count of fitted graphs it leaves
Transformed(batch, failAt, nx) ==
    \E t \in {transform_of(batch, failAt)} :
        /\ X' = t.X
        /\ ret' = [op |-> "transform", arg |-> batch, status |-> t.status, value |-> t.value]
        /\ calls' = t.calls
        /\ IF t.sets
           THEN _X_diag' = t.X_diag /\ attrs' = attrs \cup {"_X_diag"}
           ELSE UNCHANGED <<_X_diag, attrs>>
        /\ _nx' = nx
        /\ UNCHANGED <<pool, normalize, _inv_labels, fitted>>

\* transform parsing its input before it checks that the object is fitted
transformParsingFirst(batch, failAt) ==
    IF Len(Parse(batch)) = 0
    THEN Raises("transform", batch, "ValueError")
    ELSE IF ~check_is_fitted({"X", "_nx", "_inv_labels"})
    THEN Raises("transform", batch, "NotFittedError")
    ELSE Transformed(batch, failAt, _nx)

\* transform saving the number of graphs it parsed, as parse_input does
transformSavingNx(batch, failAt) ==
    IF ~check_is_fitted({"X", "_nx", "_inv_labels"})
    THEN Raises("transform", batch, "NotFittedError")
    ELSE IF Len(Parse(batch)) = 0
    THEN Raises("transform", batch, "ValueError")
    ELSE Transformed(batch, failAt, Len(Parse(batch)))

transform(batch, failAt) ==
    IF ~check_is_fitted({"X", "_nx", "_inv_labels"})
    THEN Raises("transform", batch, "NotFittedError")
    ELSE IF Len(Parse(batch)) = 0
    THEN Raises("transform", batch, "ValueError")
    ELSE Transformed(batch, failAt, _nx)

-----------------------------------------------------------------------------
\* The graphs of the behaviours checked

Empty == [len |-> 0, adj |-> <<>>, lab |-> <<>>]

Graph(adj, lab) == [len |-> 2, adj |-> adj, lab |-> lab]

\* an edge, labels a - b
EdgeAB == Graph(<< <<2>>, <<1>> >>, <<1, 2>>)
\* the same edge, labels b - a
EdgeBA == Graph(<< <<2>>, <<1>> >>, <<2, 1>>)
\* one node a, no edge
Isolated == Graph(<< <<>> >>, <<1>>)
\* a path a - a - b, the middle node listing its neighbours left to right
PathLR == Graph(<< <<2>>, <<1, 3>>, <<2>> >>, <<1, 1, 2>>)
\* the same path, the middle node listing its neighbours right to left
PathRL == Graph(<< <<2>>, <<3, 1>>, <<2>> >>, <<1, 1, 2>>)
\* an edge with a label no other graph has, c - a
EdgeCA == Graph(<< <<2>>, <<1>> >>, <<3, 1>>)

\* the pools of the behaviours that fit once and then query
Scenarios ==
    { <<EdgeAB, EdgeBA>>, <<EdgeAB, Isolated>>, <<PathLR, PathRL>>, <<EdgeAB, EdgeCA>> }

\* the pools of the behaviours that fit again and again
RefitScenarios == { <<EdgeAB>>, <<Isolated>> }

BatchesOf(elements, n) == UNION {[1..m -> elements] : m \in 0..n}

\* the batches fitted: graphs and empty elements
Batches == BatchesOf(Range(pool) \cup {Empty}, MaxBatch)

\* the object __init__ returns
Unfit ==
    /\ attrs = {}
    /\ _nx = 0
    /\ _inv_labels = EmptyDict
    /\ X = EmptyDict
    /\ _X_diag = NoValue
    /\ ret = [op |-> "__init__", arg |-> NoValue, status |-> "ok", value |-> NoValue]
    /\ calls = <<>>
    /\ fitted = <<>>

Init == pool \in Scenarios /\ normalize = FALSE /\ Unfit

\* one batch is fitted; the fit calls after it are those validation rejects
FirstFit(batch) == fitted = <<>> \/ Parse(batch) = <<>>

FitOnce == \E batch \in Batches : FirstFit(batch) /\ fit(batch, _niter)

FitTransformOnce == \E batch \in Batches : FirstFit(batch) /\ fit_transform(batch, _niter)

Transform == \E batch \in BatchesOf(Range(pool), MaxBatch) : transform(batch, _niter)

Next == FitOnce \/ FitTransformOnce \/ Transform \/ diagonal

Spec == Init /\ [][Next]_vars

InitRefit == pool \in RefitScenarios /\ normalize \in BOOLEAN /\ Unfit

\* the batches fitted, again and again, and the queries between them
Refits == BatchesOf(Range(pool), MaxBatch)

Queries == BatchesOf(Range(pool), 1)

Fit == \E batch \in Refits, failAt \in 0.._niter : fit(batch, failAt)

FitTransform == \E batch \in Refits, failAt \in 0.._niter : fit_transform(batch, failAt)

Query == \E batch \in Queries, failAt \in 0.._niter : transform(batch, failAt)

NextRefit == FitTransform \/ Fit \/ Query \/ diagonal

SpecRefit == InitRefit /\ [][NextRefit]_vars

\* the behaviours in which every call returns
FitReturns == \E batch \in Refits : fit(batch, _niter) /\ ret'.status = "ok"

FitTransformReturns == \E batch \in Refits : fit_transform(batch, _niter) /\ ret'.status = "ok"

TransformReturns == \E batch \in Refits : transform(batch, _niter) /\ ret'.status = "ok"

DiagonalReturns == diagonal /\ ret'.status = "ok"

NextReturns == FitReturns \/ FitTransformReturns \/ TransformReturns \/ DiagonalReturns

SpecReturns == InitRefit /\ [][NextReturns]_vars

-----------------------------------------------------------------------------
\* What the statements below read off a state

FitOps == {"fit", "fit_transform"}

Returned(op) == ret.op = op /\ ret.status = "ok"

\* the elements of a batch that are not zero-length, first to last
RECURSIVE Kept(_)
Kept(batch) ==
    IF Len(batch) = 0 THEN <<>>
    ELSE IF Head(batch).len = 0 THEN Kept(Tail(batch))
    ELSE <<Head(batch)>> \o Kept(Tail(batch))

\* f[1] + ... + f[n]
RECURSIVE SumTo(_, _)
SumTo(f, n) == IF n = 0 THEN 0 ELSE f[n] + SumTo(f, n - 1)

\* the nodes of a dataset, as <<graph, node>>
NodesOf(ds) == {p \in (DOMAIN ds) \X (1..9) : p[2] \in DOMAIN ds[p[1]].lab}

\* how many neighbours of node p of dataset ds carry code c
Count(ds, p, c) ==
    Cardinality({n \in DOMAIN ds[p[1]].adj[p[2]] : ds[p[1]].lab[ds[p[1]].adj[p[2]][n]] = c})

SameNeighborCodes(ds, p, q) ==
    \A c \in UNION {Range(ds[j].lab) : j \in DOMAIN ds} : Count(ds, p, c) = Count(ds, q, c)

Code(ds, p) == ds[p[1]].lab[p[2]]

Degree(ds, p) == Len(ds[p[1]].adj[p[2]])

\* the neighbour codes of node p in the order the node lists its neighbours
ListedCodes(ds, p) ==
    [n \in DOMAIN ds[p[1]].adj[p[2]] |-> ds[p[1]].lab[ds[p[1]].adj[p[2]][n]]]

\* the signature transform looks up for node v of query graph j at iteration i
QuerySignature(i, j, v) ==
    IF i = 0 THEN Kept(ret.arg)[j].lab[v]
    ELSE Credential(Kept(ret.arg)[j], calls[i].data[j].lab, v)

QueryNodes == NodesOf(Kept(ret.arg))

Unseen(i, p) == QuerySignature(i, p[1], p[2]) \notin DOMAIN _inv_labels[i]

-----------------------------------------------------------------------------
\* C1: in a transform that returns, a query node whose iteration-i signature is
\* not a key of the fitted dictionary of iteration i gets a code greater than
\* every code of that dictionary.
C1_UnseenAboveFitted ==
    Returned("transform") =>
        \A i \in 0..(_niter - 1) : \A p \in QueryNodes :
            Unseen(i, p) =>
                \A c \in Range(_inv_labels[i]) : Code(calls[i + 1].data, p) > c

\* C2: after a fit or fit_transform, every code of the dictionary of iteration
\* i >= 1 is greater than every code of the dictionary of iteration i - 1, and
\* no code is in the dictionaries of two iterations.
C2_CodesGrow ==
    check_is_fitted({"_inv_labels"}) =>
        /\ \A i \in DOMAIN _inv_labels \ {0} :
               \A c \in Range(_inv_labels[i]) : \A b \in Range(_inv_labels[i - 1]) : c > b
        /\ \A i \in DOMAIN _inv_labels : \A k \in DOMAIN _inv_labels :
               i # k => Range(_inv_labels[i]) \cap Range(_inv_labels[k]) = {}

C2_Witness ==
    /\ ret.op \in FitOps /\ ret.status = "ok"
    /\ DOMAIN _inv_labels = 0..NiterUser
    /\ \A i \in DOMAIN _inv_labels : Cardinality(DOMAIN _inv_labels[i]) >= 2

\* C3: a transform of one query graph whose signatures are all keys of the
\* fitted dictionaries gives every node, at every iteration, the code that
\* fitting the fitted batch extended with that graph gives it.
C3_TransformAsFit ==
    ( /\ Returned("transform")
      /\ Len(Kept(ret.arg)) = 1
      /\ \A i \in 0..(_niter - 1) : \A p \in QueryNodes : ~Unseen(i, p) )
    => \A refit \in {FitLevels(Append(fitted, Kept(ret.arg)[1]), _niter - 1)} :
           \A i \in 0..(_niter - 1) :
               calls[i + 1].data[1].lab = refit[i + 1].L[Len(fitted) + 1]

C3_Witness ==
    /\ Returned("transform")
    /\ Len(Kept(ret.arg)) = 1
    /\ Kept(ret.arg)[1] \notin Range(fitted)
    /\ \A i \in 0..(_niter - 1) : \A p \in QueryNodes : ~Unseen(i, p)

\* the fit-side diagonal of the instances held: the sum of theirs
FitDiagonal == [a \in 1..Len(X[0].Xd) |->
                   SumTo([n \in 1.._niter |-> BaseDiagonal(X[n - 1])[1][a]], _niter)]

\* C4: when every call returns, the dictionaries, the instances held and the
\* cached fit-side diagonal all come from the batch of the last fit or
\* fit_transform; diagonal() returns that batch's diagonal and a normalized
\* transform divides by it.
C4_DiagonalOfLastFit ==
    fitted # <<>> =>
        /\ \A i \in DOMAIN X : Len(X[i].Xd) = Len(fitted)
        /\ \A before \in {FitLevels(fitted, _niter - 1)} :
               \A i \in DOMAIN X :
                   /\ _inv_labels[i] = before[i + 1].inv
                   /\ X[i].Xd = NewGraphs(fitted, before[i + 1].L)
        /\ check_is_fitted({"_X_diag"}) => _X_diag = FitDiagonal
        /\ Returned("diagonal") => ret.value[1] = FitDiagonal
        /\ (normalize /\ Returned("transform")) =>
               \A a \in DOMAIN ret.value : \A b \in DOMAIN ret.value[a] :
                   ret.value[a][b].den[2] = FitDiagonal[b]

\* C5: while no fit or fit_transform has returned, transform and diagonal
\* raise NotFittedError, return nothing and call no base kernel.
C5_NotFitted ==
    (fitted = <<>> /\ ret.op \in {"transform", "diagonal"}) =>
        /\ ret.status = "NotFittedError"
        /\ ret.value = NoValue
        /\ calls = <<>>

C5_Witness ==
    /\ fitted = <<>>
    /\ check_is_fitted({"_nx", "_inv_labels"})
    /\ ret.op = "transform"
    /\ Len(Kept(ret.arg)) > 0

\* C6: with normalization off, a fit_transform that returns has called
\* niter + 1 instances, instance i once, on the iteration-i labeling of the
\* whole batch, and returns the entrywise sum of what they returned; likewise
\* a transform with the instances held; and after fit_transform X_diag[a] is
\* K[a, a].
C6_SumOfIterations ==
    /\ (~normalize /\ Returned("fit_transform")) =>
        /\ Len(calls) = NiterUser + 1
        /\ \A n \in 1..Len(calls) :
            /\ calls[n].inst = n - 1 /\ calls[n].method = "fit_transform"
            /\ X[n - 1] = BaseFit(calls[n].data)
            /\ Len(calls[n].data) = Len(Kept(ret.arg))
            /\ \A p \in NodesOf(calls[n].data) :
                /\ calls[n].data[p[1]].adj = Kept(ret.arg)[p[1]].adj
                /\ Code(calls[n].data, p) = _inv_labels[n - 1][QuerySignature(n - 1, p[1], p[2])]
        /\ DOMAIN ret.value = 1.._nx
        /\ \A a \in 1.._nx : \A b \in 1.._nx :
            ret.value[a][b] =
                SumTo([n \in 1..Len(calls) |-> BaseFitTransform(calls[n].data)[a][b]], Len(calls))
        /\ _X_diag = [a \in 1.._nx |-> ret.value[a][a]]
    /\ (~normalize /\ Returned("transform")) =>
        /\ Len(calls) = NiterUser + 1
        /\ \A n \in 1..Len(calls) :
            /\ calls[n].inst = n - 1 /\ calls[n].method = "transform"
            /\ X[n - 1].Yd = calls[n].data
            /\ Len(calls[n].data) = Len(Kept(ret.arg))
        /\ DOMAIN ret.value = 1..Len(Kept(ret.arg))
        /\ \A a \in 1..Len(Kept(ret.arg)) : \A b \in 1.._nx :
            ret.value[a][b] =
                SumTo([n \in 1..Len(calls) |-> BaseTransform(X[n - 1], calls[n].data)[a][b]],
                      Len(calls))

C6_Witness ==
    /\ ~normalize /\ Returned("transform")
    /\ _nx = 2 /\ Len(Kept(ret.arg)) = 2
    /\ check_is_fitted({"_X_diag"})
    /\ \E n \in 1..Len(calls) : \E a \in 1..2 : \E b \in 1..2 :
           BaseTransform(X[n - 1], calls[n].data)[a][b] # ret.value[a][b]

\* C7: a transform or a diagonal call leaves the dictionaries, the number of
\* fitted graphs and the instances held, with what they were fitted on, as
\* they were.
C7_QueriesKeepFit ==
    [][ret'.op \in {"transform", "diagonal"} =>
           /\ _inv_labels' = _inv_labels
           /\ _nx' = _nx
           /\ DOMAIN X' = DOMAIN X
           /\ \A i \in DOMAIN X : X'[i].Xd = X[i].Xd]_vars

C7_Witness ==
    /\ Returned("transform")
    /\ \E i \in 0..(_niter - 1) : \E p \in QueryNodes : Unseen(i, p)
    /\ \E i \in 0..(_niter - 1) : \E p \in QueryNodes : ~Unseen(i, p)

\* C8: a fit or fit_transform of a batch with nothing but zero-length elements
\* raises ValueError and leaves the fitted state as it was; with a graph in
\* the batch it returns, and the graphs fitted are the elements that are not
\* zero-length, in batch order.
C8_EmptySkipped ==
    [][ret'.op \in FitOps =>
           IF Kept(ret'.arg) = <<>>
           THEN /\ ret'.status = "ValueError"
                /\ UNCHANGED <<attrs, _nx, _inv_labels, X, _X_diag, fitted>>
           ELSE /\ ret'.status = "ok"
                /\ _nx' = Len(Kept(ret'.arg))
                /\ ret'.op = "fit_transform" =>
                       /\ Len(ret'.value) = _nx'
                       /\ \A a \in 1.._nx' : Len(ret'.value[a]) = _nx'
                /\ \A i \in DOMAIN X' :
                       /\ Len(X'[i].Xd) = _nx'
                       /\ \A j \in 1.._nx' : X'[i].Xd[j].adj = Kept(ret'.arg)[j].adj
                /\ \A p \in NodesOf(X'[0].Xd) :
                       Code(X'[0].Xd, p) = _inv_labels'[0][Kept(ret'.arg)[p[1]].lab[p[2]]]]_vars

C8_Witness ==
    /\ ret.op \in FitOps /\ ret.status = "ok"
    /\ Len(ret.arg) = 2
    /\ ret.arg[1] = Empty
    /\ _nx = 1

\* C9: after a fit, at every iteration i >= 1 two nodes of the batch have the
\* same code exactly when they had the same code at iteration i - 1 and their
\* neighbours carried the same codes the same number of times; a node with no
\* neighbour has a code no node with a neighbour has.
C9_SameCodeSameSignature ==
    (ret.op \in FitOps /\ ret.status = "ok") =>
        \A i \in 1..(_niter - 1) :
            \A p \in NodesOf(X[i].Xd) : \A q \in NodesOf(X[i].Xd) :
                /\ Code(X[i].Xd, p) = Code(X[i].Xd, q)
                       <=> /\ Code(X[i - 1].Xd, p) = Code(X[i - 1].Xd, q)
                           /\ SameNeighborCodes(X[i - 1].Xd, p, q)
                /\ (Degree(X[i].Xd, p) = 0 /\ Degree(X[i].Xd, q) > 0)
                       => Code(X[i].Xd, p) # Code(X[i].Xd, q)

C9_Witness ==
    /\ ret.op \in FitOps /\ ret.status = "ok"
    /\ \E p \in NodesOf(X[1].Xd) : \E q \in NodesOf(X[1].Xd) :
           /\ ListedCodes(X[0].Xd, p) # ListedCodes(X[0].Xd, q)
           /\ Code(X[1].Xd, p) = Code(X[1].Xd, q)

\* C10: a fit or fit_transform that a base-kernel error ends on a fitted
\* model returns nothing and leaves the number of fitted graphs, the
\* dictionaries and the instances held those of the batch fitted before.
C10_FailedFitKeepsModel ==
    (ret.op \in FitOps /\ ret.status = "BaseKernelError" /\ fitted # <<>>) =>
        /\ ret.value = NoValue
        /\ _nx = Len(fitted)
        /\ DOMAIN _inv_labels = DOMAIN X
        /\ \A before \in {FitLevels(fitted, _niter - 1)} :
               \A i \in DOMAIN X :
                   /\ _inv_labels[i] = before[i + 1].inv
                   /\ X[i].Xd = NewGraphs(fitted, before[i + 1].L)

====
